---- MODULE Spec2Model ----
(***************************************************************************)
(* Model of public/js/core.js of the panel's web client: the route table   *)
(* with its auth gate (Auth.auth) and the idle/auth-expiry watchdog        *)
(* (Auth.auto_auth).  Times are milliseconds, as Date.getTime() gives.     *)
(***************************************************************************)
EXTENDS Integers, Sequences, FiniteSets, TLC

\* ------------------------------------------------------------------ bounds
\* The clock advances in steps of check_timeout \div Granularity.
Granularity == 3
\* The clock stops after Horizon check intervals.
Horizon == 10
\* At most MaxGates gated navigations in one behaviour.
MaxGates == 2
\* At most MaxBlinks title changes in one blink chain.
MaxBlinks == 3

\* --------------------------------------------------------------- constants
check_timeout == 300 * 1000
auth_timeout == 2500 * 1000
title_delay == 1000
StepMs == check_timeout \div Granularity
MaxTime == Horizon * check_timeout

blinks == <<"login-timeout", "!!!!!!!!">>
InitialTitle == "InPanel"

NoMessage == [kind |-> "none", text |-> "none"]

VARIABLES
    now,          \* new Date().getTime()
    path,         \* $location.path()
    route,        \* $route.current: the route being resolved, and its gate
    view,         \* the route that has been entered (its controller runs)
    message,      \* what the Message service shows
    gates,        \* one record per call of Auth.auth
    inited,       \* $rootScope._auth_check_inited
    last_active,  \* last_active of auto_auth
    timers,       \* pending timers of the Timeout service
    queries,      \* Auth.getlastactive calls in flight, each with its tick's now
    episodes,     \* the closures of the getlastactive callback's expiry branch
    authrenew,    \* $rootScope._authrenew: the episode it closes over, 0 if unset
    htmlTitle,    \* $rootScope.htmlTitle
    modal,        \* whether the #_authconfirm dialog is open
    last,         \* the handler that ran last and the calls it issued
    jar,          \* the cookies of the document, in the order of their creation
    cookie        \* the cookie helper that ran last, its arguments and its result

vars == <<now, path, route, view, message, gates, inited, last_active, timers,
          queries, episodes, authrenew, htmlTitle, modal, last, jar, cookie>>

routerVars == <<path, route, view, message, gates>>
watchVars == <<inited, last_active, timers, queries, episodes, authrenew,
               htmlTitle, modal>>
cookieVars == <<jar, cookie>>

\* ------------------------------------------------------------- route table
\* _r(t, c, a): a is TRUE only for the login route; omitted (falsy) elsewhere.
_r(t, c, a) ==
    [templateUrl |-> t, controller |-> c, reloadOnSearch |-> FALSE,
     resolve |-> IF ~a THEN "Auth" ELSE "none"]

\* A representative part of the when() table: the login route, the main view,
\* one ordinary page, and the fallback page.
RouteTable ==
    [p \in {"/login", "/", "/service", "/sorry"} |->
        CASE p = "/login"   -> _r("login", "LoginCtrl", TRUE)
          [] p = "/"        -> _r("main", "MainCtrl", FALSE)
          [] p = "/service" -> _r("service/index", "ServiceCtrl", FALSE)
          [] p = "/sorry"   -> _r("sorry", "SorryCtrl", FALSE)]

\* otherwise({redirectTo: '/sorry'})
Otherwise == "/sorry"

\* The paths a user may ask for: the registered ones and an unregistered one.
Requested == DOMAIN RouteTable \cup {"/nope"}

Resolve(p) == IF p \in DOMAIN RouteTable THEN p ELSE Otherwise

Gated(p) == RouteTable[p].resolve = "Auth"

\* ------------------------------------------------------- external services
\* Timeout(fn, delay, false, true, name): a named timer; scheduling under a
\* name replaces the pending timer of that name.
\* Mutant of Timeout: the pending timer of that name is left pending.
TimeoutKeepsOld(ts, fn, ep, delay, name) ==
    ts \cup {[name |-> name, at |-> now + delay, fn |-> fn, ep |-> ep]}

Timeout(ts, fn, ep, delay, name) ==
    {t \in ts : t.name # name}
        \cup {[name |-> name, at |-> now + delay, fn |-> fn, ep |-> ep]}

\* Message.setInfo(text, true)
SetInfo(text) == [kind |-> "info", text |-> text]

\* Message.setInfo(false): takes the info message away.
ClearInfo(m) == IF m.kind = "info" THEN NoMessage ELSE m

\* Message.setError(text)
SetError(text) == [kind |-> "error", text |-> text]

\* parseInt of the server's reply, a decimal number of seconds given here in
\* thousandths: the fraction is dropped.
ParseInt(rep) == rep \div 1000

\* What a handler did: the calls of Auth.required and Auth.getlastactive it
\* issued; for a callback of the gate, the gate; for the getlastactive
\* callback, the now of its tick and the server's report.
Ran(op, required, getlastactive, gate, ticknow, report) ==
    [op |-> op, required |-> required, getlastactive |-> getlastactive,
     gate |-> gate, ticknow |-> ticknow, report |-> report]

Calls(op, required, getlastactive) == Ran(op, required, getlastactive, 0, 0, 0)

\* ------------------------------------------------------------------ cookies
\* A string is a sequence of symbols.  A symbol is one character, or one of
\* the words the cookie syntax reads as a unit: the attribute names "expires"
\* and "max-age", and the dates "PAST" (a millisecond ago) and "FUTURE"
\* (thirty days ahead) as toGMTString() writes them.
Names == {<<"a">>, <<"b", "a">>}

Values ==
    {<<>>,
     <<"x">>,
     <<"a", "=", "x">>,
     <<"x", ";", " ", "a", "=", "y">>,
     <<"%">>,
     <<"x", ";", "max-age", "=", "9">>}

\* What get_cookie gives: a string, null, or the URIError decodeURIComponent
\* throws.
Null == [kind |-> "null", s |-> <<>>]
Str(s) == [kind |-> "string", s |-> s]
URIError == [kind |-> "URIError", s |-> <<>>]

\* The characters encodeURIComponent escapes, with their escapes.
Escapes ==
    {[c |-> ";", e |-> <<"%", "3", "B">>], [c |-> "=", e |-> <<"%", "3", "D">>],
     [c |-> " ", e |-> <<"%", "2", "0">>], [c |-> "%", e |-> <<"%", "2", "5">>]}

RECURSIVE encodeURIComponent(_)
encodeURIComponent(s) ==
    IF s = <<>> THEN <<>>
    ELSE LET esc == {x \in Escapes : x.c = Head(s)}
         IN (IF esc = {} THEN <<Head(s)>> ELSE (CHOOSE x \in esc : TRUE).e)
                \o encodeURIComponent(Tail(s))

RECURSIVE decodeURIComponent(_)
decodeURIComponent(s) ==
    IF s = <<>> THEN Str(<<>>)
    ELSE LET esc == {x \in Escapes : Len(s) >= 3 /\ x.e = SubSeq(s, 1, 3)}
             c == IF Head(s) # "%" THEN Head(s) ELSE (CHOOSE x \in esc : TRUE).c
             rest == decodeURIComponent(
                         SubSeq(s, IF Head(s) # "%" THEN 2 ELSE 4, Len(s)))
         IN IF Head(s) = "%" /\ esc = {} THEN URIError
            ELSE IF rest.kind = "URIError" THEN URIError
            ELSE Str(<<c>> \o rest.s)

\* The places of symbol c in s.
Places(s, c) == {i \in 1..Len(s) : s[i] = c}
Least(S) == CHOOSE i \in S : \A j \in S : i <= j
Greatest(S) == CHOOSE i \in S : \A j \in S : i >= j

Before(s, c) == IF Places(s, c) = {} THEN s ELSE SubSeq(s, 1, Least(Places(s, c)) - 1)
After(s, c) ==
    IF Places(s, c) = {} THEN <<>> ELSE SubSeq(s, Least(Places(s, c)) + 1, Len(s))

RECURSIVE Split(_, _)
Split(s, c) ==
    IF Places(s, c) = {} THEN <<s>> ELSE <<Before(s, c)>> \o Split(After(s, c), c)

RECURSIVE Trim(_)
Trim(s) ==
    IF s # <<>> /\ Head(s) = " " THEN Trim(Tail(s))
    ELSE IF s # <<>> /\ s[Len(s)] = " " THEN Trim(SubSeq(s, 1, Len(s) - 1))
    ELSE s

\* Whether the attributes of a cookie string make the cookie expired: the
\* last valid max-age decides, else the last valid expires, else it lives.
Expired(attrs) ==
    LET maxage == {i \in DOMAIN attrs : /\ attrs[i].name = <<"max-age">>
                                        /\ attrs[i].value \in {<<"0">>, <<"9">>}}
        expires == {i \in DOMAIN attrs : /\ attrs[i].name = <<"expires">>
                                         /\ attrs[i].value \in {<<"PAST">>, <<"FUTURE">>}}
    IN IF maxage # {} THEN attrs[Greatest(maxage)].value = <<"0">>
       ELSE IF expires # {} THEN attrs[Greatest(expires)].value = <<"PAST">>
       ELSE FALSE

\* document.cookie = str: the browser reads name=value up to the first ';',
\* then the attributes; a live cookie takes the place of the one of its name or
\* is added, an expired one removes the one of its name.
SetDocumentCookie(j, str) ==
    LET parts == Split(str, ";")
        name == Trim(Before(parts[1], "="))
        value == Trim(After(parts[1], "="))
        attrs == [i \in 1..(Len(parts) - 1) |->
                     [name |-> Trim(Before(parts[i + 1], "=")),
                      value |-> Trim(After(parts[i + 1], "="))]]
        others == SelectSeq(j, LAMBDA c : c.name # name)
    IN IF Places(parts[1], "=") = {} THEN j
       ELSE IF Expired(attrs) THEN others
       ELSE IF \E i \in DOMAIN j : j[i].name = name
            THEN [i \in DOMAIN j |->
                     IF j[i].name = name THEN [name |-> name, value |-> value] ELSE j[i]]
            ELSE Append(j, [name |-> name, value |-> value])

\* document.cookie, read: "name=value; name=value"
RECURSIVE DocumentCookie(_)
DocumentCookie(j) ==
    IF j = <<>> THEN <<>>
    ELSE j[1].name \o <<"=">> \o j[1].value
             \o (IF Len(j) > 1 THEN <<";", " ">> \o DocumentCookie(Tail(j)) ELSE <<>>)

\* set_cookie(name, value)
set_cookie(j, name, value) ==
    SetDocumentCookie(j, name \o <<"=">> \o encodeURIComponent(value)
                             \o <<";", "expires", "=", "FUTURE">>)

\* get_cookie(name): the leftmost match of (^| )name=([^;]*)(;|$), decoded
get_cookie(j, name) ==
    LET s == DocumentCookie(j)
        key == name \o <<"=">>
        starts == {i \in 1..Len(s) : /\ i = 1 \/ s[i - 1] = " "
                                     /\ i + Len(key) - 1 <= Len(s)
                                     /\ SubSeq(s, i, i + Len(key) - 1) = key}
        from == Least(starts) + Len(key)
        ends == {k \in from..Len(s) : s[k] = ";"}
        to == IF ends = {} THEN Len(s) ELSE Least(ends) - 1
    IN IF starts = {} THEN Null ELSE decodeURIComponent(SubSeq(s, from, to))

\* del_cookie(name): writes the decoded value back with a date in the past;
\* nothing is written if get_cookie gives null or throws.
del_cookie(j, name) ==
    LET cval == get_cookie(j, name)
    IN IF cval.kind = "string"
       THEN SetDocumentCookie(j, name \o <<"=">> \o cval.s
                                      \o <<";", "expires", "=", "PAST">>)
       ELSE j

TypeOK ==
    /\ now \in 0..MaxTime
    /\ path \in DOMAIN RouteTable
    /\ view \in DOMAIN RouteTable \cup {"none"}
    /\ message.kind \in {"none", "info", "error"}
    /\ Len(gates) <= MaxGates
    /\ inited \in BOOLEAN
    /\ modal \in BOOLEAN
    /\ authrenew \in 0..Len(episodes)

Init ==
    /\ now = 0
    /\ path = "/login"
    /\ route = [path |-> "/login", gate |-> 0]
    /\ view = "/login"
    /\ message = NoMessage
    /\ gates = <<>>
    /\ inited = FALSE
    /\ last_active = 0
    /\ timers = {}
    /\ queries = {}
    /\ episodes = <<>>
    /\ authrenew = 0
    /\ htmlTitle = InitialTitle
    /\ modal = FALSE
    /\ last = Calls("init", 0, 0)
    /\ jar = <<>>
    /\ cookie = [op |-> "none", name |-> <<>>, value |-> <<>>, ret |-> Null]

\* ---------------------------------------------------------------- Auth.auth
\* Mutants of AuthResolves: resolving whatever authed is, and never resolving.
AuthResolvesAlways(authed) == TRUE

AuthResolvesNever(authed) == FALSE

\* The success callback of Auth.required: if (authed) deferred.resolve()
AuthResolves(authed) == authed

\* Mutant of AuthRedirects: every failure sends to /login.
AuthRedirectsAlways(status) == TRUE

\* The failure callback of Auth.required: only status 403 sends to /login.
AuthRedirects(status) == status = 403

AuthFailureText(status) ==
    IF status = 403 THEN "auth-failed-relogin" ELSE "load-failed"

Statuses == {403, 500, 0}

\* ----------------------------------------------------------- Auth.auto_auth
\* The first call starts the watchdog; later calls do nothing.
AutoAuth ==
    IF ~inited
    THEN /\ inited' = TRUE
         /\ last_active' = now
         /\ timers' = Timeout(timers, "active", 0, check_timeout, "_authtimeout")
    ELSE UNCHANGED <<inited, last_active, timers>>

\* ---------------------------------------------------------------- navigation
\* The user asks for path p.  An unregistered path is redirected to /sorry.  A
\* route whose resolve is Auth runs Auth.auth and Auth.auto_auth and is entered
\* when the promise of Auth.auth resolves; the login route is entered at once.
Navigate(p) ==
    LET target == Resolve(p) IN
    /\ target # path
    /\ path' = target
    /\ IF Gated(target)
       THEN /\ Len(gates) < MaxGates
            /\ gates' = Append(gates, [route |-> target, matched |-> p = target,
                                       reply |-> "none", resolved |-> FALSE])
            /\ route' = [path |-> target, gate |-> Len(gates) + 1]
            /\ message' = SetInfo("loading")
            /\ view' = view
            /\ AutoAuth
            /\ last' = Calls("navigate", 1, 0)
       ELSE /\ route' = [path |-> target, gate |-> 0]
            /\ view' = target
            /\ last' = Calls("navigate", 0, 0)
            /\ UNCHANGED <<gates, message, inited, last_active, timers>>
    /\ UNCHANGED <<now, queries, episodes, authrenew, htmlTitle, modal>>
    /\ UNCHANGED cookieVars

\* Auth.required calls back success with authed.
GateSuccess(i, authed) ==
    /\ i \in 1..Len(gates)
    /\ gates[i].reply = "none"
    /\ message' = ClearInfo(message)
    /\ gates' = [gates EXCEPT ![i].reply = IF authed THEN "authed" ELSE "unauthed",
                              ![i].resolved = AuthResolves(authed)]
    /\ view' = IF AuthResolves(authed) /\ route.gate = i THEN route.path ELSE view
    /\ last' = Ran("gate_success", 0, 0, i, 0, 0)
    /\ UNCHANGED <<now, path, route>>
    /\ UNCHANGED watchVars
    /\ UNCHANGED cookieVars

\* Auth.required calls back failure with status.
GateFailure(i, status) ==
    /\ i \in 1..Len(gates)
    /\ gates[i].reply = "none"
    /\ gates' = [gates EXCEPT ![i].reply = IF status = 403 THEN "403" ELSE "error"]
    /\ message' = SetError(AuthFailureText(status))
    /\ IF AuthRedirects(status)
       THEN /\ path' = "/login"
            /\ route' = [path |-> "/login", gate |-> 0]
            /\ view' = "/login"
       ELSE UNCHANGED <<path, route, view>>
    /\ last' = Ran("gate_failure", 0, 0, i, 0, 0)
    /\ UNCHANGED now
    /\ UNCHANGED watchVars
    /\ UNCHANGED cookieVars

\* ------------------------------------------------------------ the watchdog
\* mousemove and keydown on the document
\* Mutant of UserInput: the event also drops the query in flight.
UserInputCancels ==
    /\ inited
    /\ last_active # now
    /\ last_active' = now
    /\ queries' = {}
    /\ last' = Calls("input", 0, 0)
    /\ UNCHANGED <<now, inited, timers, episodes, authrenew, htmlTitle, modal>>
    /\ UNCHANGED routerVars
    /\ UNCHANGED cookieVars

UserInput ==
    /\ inited
    /\ last_active # now
    /\ last_active' = now
    /\ last' = Calls("input", 0, 0)
    /\ UNCHANGED <<now, inited, timers, queries, episodes, authrenew, htmlTitle, modal>>
    /\ UNCHANGED routerVars
    /\ UNCHANGED cookieVars

\* Mutant of Branch: the refresh branch is lost.
BranchNoRefresh(idle) ==
    IF idle > auth_timeout THEN "check" ELSE "none"

\* Mutant of Branch: the two boundaries belong to the outer branches.
BranchBoundariesOut(idle) ==
    IF idle <= check_timeout THEN "required"
    ELSE IF idle >= auth_timeout THEN "check"
    ELSE "none"

\* The branch a tick takes for its idle time.
Branch(idle) ==
    IF idle < check_timeout THEN "required"
    ELSE IF idle > auth_timeout THEN "check"
    ELSE "none"

\* Mutant of Reschedules: the comparison with the main view is turned round.
ReschedulesOnMain(stop_check, p) == ~stop_check /\ p = "/"

\* Mutant of Reschedules: stop_check is not looked at.
ReschedulesWhileChecking(stop_check, p) == p # "/"

\* if (!stop_check && $location.path() != '/')
Reschedules(stop_check, p) == ~stop_check /\ p # "/"

\* active: the '_authtimeout' timer fires.
Active ==
    \E t \in timers :
        /\ t.fn = "active"
        /\ t.at <= now
        /\ LET b == Branch(now - last_active)
               stop_check == b = "check"
               rest == timers \ {t}
           IN /\ queries' = IF b = "check" THEN queries \cup {[now |-> now]} ELSE queries
              /\ timers' = IF Reschedules(stop_check, path)
                           THEN Timeout(rest, "active", 0, check_timeout, "_authtimeout")
                           ELSE rest
              /\ last' = Calls("active", IF b = "required" THEN 1 ELSE 0,
                                         IF b = "check" THEN 1 ELSE 0)
        /\ UNCHANGED <<now, inited, last_active, episodes, authrenew, htmlTitle, modal>>
        /\ UNCHANGED routerVars
        /\ UNCHANGED cookieVars

\* Mutant of ServerExpired: the boundary counts as expired.
ServerExpiredAtBoundary(ticknow, lastactive) == ticknow - lastactive >= auth_timeout

\* now - lastactive > auth_timeout, with the now of the tick
ServerExpired(ticknow, lastactive) == ticknow - lastactive > auth_timeout

\* Mutant of BlinkTitle: the index is not reduced to the other string.
BlinkTitleStuck(blink_i) == blinks[1]

\* blinks[(blink_i++) % 2]
BlinkTitle(blink_i) == blinks[(blink_i % 2) + 1]

\* What the server may report for a query: just past the timeout, exactly at
\* it, and the present time.
Reports(q) == {r \in {q.now - auth_timeout - 1, q.now - auth_timeout, now} : r >= 0}

\* The callback of Auth.getlastactive, with the server's report rep.
LastActive(q, rep) ==
    LET lastactive == ParseInt(rep) * 1000 IN
    /\ q \in queries
    /\ queries' = queries \ {q}
    /\ IF ServerExpired(q.now, lastactive)
       THEN LET ep == Len(episodes) + 1 IN
            \* toggletitle() runs once at once, then _authrenew is set, then the dialog opens
            /\ episodes' = Append(episodes, [oldHtmlTitle |-> htmlTitle, blink_i |-> 1,
                                             stop_blink |-> FALSE])
            /\ htmlTitle' = BlinkTitle(0)
            /\ timers' = Timeout(timers, "toggletitle", ep, title_delay, "_authtimeout_title")
            /\ authrenew' = ep
            /\ modal' = TRUE
            /\ UNCHANGED last_active
       ELSE /\ last_active' = lastactive
            /\ timers' = Timeout(timers, "active", 0, check_timeout, "_authtimeout")
            /\ UNCHANGED <<episodes, htmlTitle, authrenew, modal>>
    /\ last' = Ran("lastactive", 0, 0, 0, q.now, rep)
    /\ UNCHANGED <<now, inited>>
    /\ UNCHANGED routerVars
    /\ UNCHANGED cookieVars

\* The Auth.getlastactive request of a tick fails: the call passes a success
\* callback only, so nothing of the watchdog runs.
QueryFails(q) ==
    /\ q \in queries
    /\ queries' = queries \ {q}
    /\ last' = Ran("lastactive_failed", 0, 0, 0, q.now, 0)
    /\ UNCHANGED <<now, inited, last_active, timers, episodes, authrenew,
                   htmlTitle, modal>>
    /\ UNCHANGED routerVars
    /\ UNCHANGED cookieVars

\* toggletitle: the '_authtimeout_title' timer fires.
ToggleTitle ==
    \E t \in timers :
        /\ t.fn = "toggletitle"
        /\ t.at <= now
        /\ LET e == episodes[t.ep]
               rest == timers \ {t}
           IN IF ~e.stop_blink
              THEN /\ e.blink_i < MaxBlinks
                   /\ htmlTitle' = BlinkTitle(e.blink_i)
                   /\ episodes' = [episodes EXCEPT ![t.ep].blink_i = e.blink_i + 1]
                   /\ timers' = Timeout(rest, "toggletitle", t.ep, title_delay,
                                        "_authtimeout_title")
              ELSE /\ htmlTitle' = e.oldHtmlTitle
                   /\ timers' = rest
                   /\ UNCHANGED episodes
        /\ last' = Calls("toggletitle", 0, 0)
        /\ UNCHANGED <<now, inited, last_active, queries, authrenew, modal>>
        /\ UNCHANGED routerVars
        /\ UNCHANGED cookieVars

\* Mutant of Renewed: stop_blink is left as it was.
RenewedStillBlinking(e) == e

\* stop_blink = true, in the closure _authrenew was made in
Renewed(e) == [e EXCEPT !.stop_blink = TRUE]

\* $rootScope._authrenew, run by the confirm button of the open dialog; the
\* button also dismisses the dialog.
AuthRenew ==
    /\ modal
    /\ authrenew # 0
    /\ last_active' = now
    /\ episodes' = [episodes EXCEPT ![authrenew] = Renewed(episodes[authrenew])]
    /\ timers' = Timeout(timers, "active", 0, check_timeout, "_authtimeout")
    /\ modal' = FALSE
    /\ last' = Calls("authrenew", 1, 0)
    /\ UNCHANGED <<now, inited, queries, authrenew, htmlTitle>>
    /\ UNCHANGED routerVars
    /\ UNCHANGED cookieVars

\* Mutant of RenewAgain: the function has been taken away by the confirmation.
RenewAgainCleared ==
    /\ ~modal
    /\ authrenew # 0
    /\ last' = Calls("renew_again", 0, 0)
    /\ UNCHANGED <<now, watchVars, routerVars, cookieVars>>

\* $rootScope._authrenew invoked again while no dialog is open: the function
\* stays on the root scope after the confirmation and still holds the closure
\* of the warning it was made for.
RenewAgain ==
    /\ ~modal
    /\ authrenew # 0
    /\ last_active' = now
    /\ episodes' = [episodes EXCEPT ![authrenew] = Renewed(episodes[authrenew])]
    /\ timers' = Timeout(timers, "active", 0, check_timeout, "_authtimeout")
    /\ last' = Calls("renew_again", 1, 0)
    /\ UNCHANGED <<now, inited, queries, authrenew, htmlTitle, modal>>
    /\ UNCHANGED routerVars
    /\ UNCHANGED cookieVars

\* Time passes: to the next timer's time, or by one step if that comes first.
\* A timer that is due fires before time passes, and so does the reply to an
\* authorization check of the gate.
Advance ==
    LET next == now + StepMs
        due == {t.at : t \in {u \in timers : u.at <= next}}
        to == IF due = {} THEN next ELSE CHOOSE d \in due : \A e \in due : d <= e
    IN /\ \A t \in timers : t.at > now
       /\ \A i \in 1..Len(gates) : gates[i].reply # "none"
       /\ to <= MaxTime
       /\ now' = to
       /\ last' = Calls("advance", 0, 0)
       /\ UNCHANGED <<path, route, view, message, gates, inited, last_active, timers,
                      queries, episodes, authrenew, htmlTitle, modal>>
       /\ UNCHANGED cookieVars

\* ------------------------------------------------------- the cookie helpers
appVars == <<now, routerVars, watchVars, last>>

SetCookie(name, value) ==
    /\ jar' = set_cookie(jar, name, value)
    /\ cookie' = [op |-> "set_cookie", name |-> name, value |-> value, ret |-> Null]
    /\ UNCHANGED appVars

GetCookie(name) ==
    /\ cookie' = [op |-> "get_cookie", name |-> name, value |-> <<>>,
                  ret |-> get_cookie(jar, name)]
    /\ UNCHANGED jar
    /\ UNCHANGED appVars

DelCookie(name) ==
    /\ jar' = del_cookie(jar, name)
    /\ cookie' = [op |-> "del_cookie", name |-> name, value |-> <<>>, ret |-> Null]
    /\ UNCHANGED appVars

\* The router and its gate alone, under every reply of the authorization check.
GateNext ==
    \/ \E p \in Requested : Navigate(p)
    \/ \E i \in 1..MaxGates, authed \in BOOLEAN : GateSuccess(i, authed)
    \/ \E i \in 1..MaxGates, status \in Statuses : GateFailure(i, status)

GateSpec == Init /\ [][GateNext]_vars

\* Every authorization check is answered in the end; the user owes nothing.
GateFairSpec ==
    /\ GateSpec
    /\ \A i \in 1..MaxGates :
          WF_vars((\E authed \in BOOLEAN : GateSuccess(i, authed))
                      \/ (\E status \in Statuses : GateFailure(i, status)))

\* The pages visited while the watchdog is observed: the login route, the main
\* view and one ordinary page.
Visited == {"/login", "/", "/service"}

\* The watchdog during a valid session: every authorization check of the gate
\* succeeds.
Next ==
    \/ \E p \in Visited : Navigate(p)
    \/ \E i \in 1..MaxGates : GateSuccess(i, TRUE)
    \/ UserInput
    \/ Active
    \/ \E q \in queries : \E rep \in Reports(q) : LastActive(q, rep)
    \/ ToggleTitle
    \/ AuthRenew
    \/ Advance

Spec == Init /\ [][Next]_vars

\* Timers fire, time passes and the server answers every query; the user owes
\* nothing.
FairSpec ==
    /\ Spec
    /\ WF_vars(Active)
    /\ WF_vars(ToggleTitle)
    /\ WF_vars(Advance)
    /\ WF_vars(\E q \in queries : \E rep \in Reports(q) : LastActive(q, rep))
    /\ WF_vars(\E i \in 1..MaxGates : GateSuccess(i, TRUE))

\* The watchdog when the confirm action may also be invoked outside the dialog.
RenewNext ==
    \/ Next
    \/ RenewAgain

RenewSpec == Init /\ [][RenewNext]_vars

\* The cookie helpers alone, called with every name and value.
CookieNext ==
    \/ \E name \in Names : \E value \in Values : SetCookie(name, value)
    \/ \E name \in Names : GetCookie(name)
    \/ \E name \in Names : DelCookie(name)

CookieSpec == Init /\ [][CookieNext]_vars

\* The watchdog with a server that may fail a getlastactive request or leave it
\* unanswered: timers fire and time passes, the server owes nothing.
LossyNext ==
    \/ Next
    \/ \E q \in queries : QueryFails(q)

LossySpec ==
    /\ Init /\ [][LossyNext]_vars
    /\ WF_vars(Active)
    /\ WF_vars(ToggleTitle)
    /\ WF_vars(Advance)
    /\ WF_vars(\E i \in 1..MaxGates : GateSuccess(i, TRUE))

\* The watchdog with a user who gives no input and a server whose record of the
\* last activity is the client's own, answering every query.
IdleReports(q) == {last_active}

IdleNext ==
    \/ \E p \in Visited : Navigate(p)
    \/ \E i \in 1..MaxGates : GateSuccess(i, TRUE)
    \/ Active
    \/ \E q \in queries : \E rep \in IdleReports(q) : LastActive(q, rep)
    \/ ToggleTitle
    \/ AuthRenew
    \/ Advance

\* Timers fire, time passes and the server answers; the user owes nothing.
IdleSpec ==
    /\ Init /\ [][IdleNext]_vars
    /\ WF_vars(Active)
    /\ WF_vars(ToggleTitle)
    /\ WF_vars(Advance)
    /\ WF_vars(\E q \in queries : \E rep \in IdleReports(q) : LastActive(q, rep))
    /\ WF_vars(\E i \in 1..MaxGates : GateSuccess(i, TRUE))

\* ------------------------------------------------------------------ claims
Settles(i, reply) ==
    /\ i \in 1..Len(gates)
    /\ gates[i].reply = "none"
    /\ gates'[i].reply = reply

\* C1: the promise of Auth.auth is resolved, and a gated route entered, only
\* after the authorization check called back success with authed true; with
\* authed false, a 403, another failure or no reply yet it is not resolved.
C1_GateSafety ==
    /\ \A i \in 1..Len(gates) : gates[i].resolved => gates[i].reply = "authed"
    /\ Gated(view) =>
           \E i \in 1..Len(gates) : gates[i].route = view /\ gates[i].resolved

\* One check said authed false and its gate stays shut; a later one said
\* authed true and its route is entered.
C1_Witness ==
    /\ Len(gates) = 2
    /\ gates[1].reply = "unauthed" /\ ~gates[1].resolved
    /\ gates[2].reply = "authed" /\ gates[2].resolved
    /\ view = gates[2].route

\* C2: whenever the gate's authorization check reports the session as not
\* valid, as a failure with status 403 or as authed false without a 403, the
\* path eventually becomes /login.
C2_InvalidSessionRedirects ==
    \A i \in 1..MaxGates :
        (last.gate = i /\ gates[i].reply \in {"403", "unauthed"})
            ~> (path = "/login")

\* C3: a failure with a status other than 403 shows an error message, leaves
\* the path and the view as they are, issues no further call, and leaves the
\* gate blocked for good.
C3_OtherFailureBlocks ==
    [][\A i \in 1..MaxGates :
          /\ Settles(i, "error") =>
                 /\ message'.kind = "error"
                 /\ path' = path /\ route' = route /\ view' = view
                 /\ ~gates'[i].resolved
                 /\ last'.required = 0
                 /\ Len(gates') = Len(gates)
          /\ (i <= Len(gates) /\ gates[i].reply = "error") =>
                 gates'[i].reply = "error" /\ ~gates'[i].resolved]_vars

\* The check of the current navigation has just failed with another status:
\* the error is shown and the path is still the route's.
C3_Witness ==
    /\ last.op = "gate_failure"
    /\ route.gate # 0
    /\ gates[route.gate].reply = "error"
    /\ message = SetError("load-failed")
    /\ path = gates[route.gate].route
    /\ view # path

\* C4 as stated: for every unmatched path and every session state, the
\* navigation ends with /sorry entered, no error message and no other redirect.
C4_UnmatchedAlwaysSorry ==
    [][\A i \in 1..MaxGates :
          (/\ i <= Len(gates) /\ route.gate = i /\ ~gates[i].matched
           /\ gates[i].reply = "none" /\ gates'[i].reply # "none")
              => /\ view' = "/sorry"
                 /\ path' = "/sorry"
                 /\ message'.kind # "error"]_vars

\* C4 as amended: an unmatched path is redirected to /sorry with no error
\* raised; /sorry is gated, so it is entered, with no error message raised and
\* no further redirect, when the check says authed true; a 403 shows an error
\* and ends at /login; authed false or another failure leaves /sorry unentered.
C4_UnmatchedSorryGated ==
    [][ /\ (Len(gates') > Len(gates) /\ ~gates'[Len(gates')].matched) =>
               /\ path' = "/sorry"
               /\ route' = [path |-> "/sorry", gate |-> Len(gates')]
               /\ message' = SetInfo("loading")
        /\ \A i \in 1..MaxGates :
               (i <= Len(gates) /\ route.gate = i /\ ~gates[i].matched) =>
                   /\ Settles(i, "authed") =>
                          /\ view' = "/sorry" /\ path' = "/sorry"
                          /\ message'.kind = "error" => message' = message
                   /\ Settles(i, "403") =>
                          /\ view' = "/login" /\ path' = "/login"
                          /\ message'.kind = "error"
                   /\ Settles(i, "error") =>
                          view' = view /\ path' = "/sorry" /\ message'.kind = "error"
                   /\ Settles(i, "unauthed") =>
                          view' = view /\ path' = "/sorry"]_vars

\* An unmatched path was asked for from the login page, its check said authed
\* true, and /sorry is entered.
C4_Witness ==
    /\ last.op = "gate_success"
    /\ route.gate # 0
    /\ ~gates[route.gate].matched
    /\ gates[route.gate].resolved
    /\ view = "/sorry" /\ path = "/sorry"
    /\ message.kind # "error"

WatchdogAt(ts, at) ==
    \E t \in ts : t.name = "_authtimeout" /\ t.fn = "active" /\ t.at = at

WatchdogTimers(ts) == {t \in ts : t.name = "_authtimeout"}

TitleTimers(ts) == {t \in ts : t.name = "_authtimeout_title"}

\* The ticks after which an idle user's idle time exceeds auth_timeout.
EscalationTicks == (auth_timeout \div check_timeout) + 1

\* C5: once the watchdog is started, with no further input, an equally stale
\* server record and every query answered, the confirmation dialog is opened
\* in the end, on whatever path the user is.  (Stated for a watchdog started
\* early enough for the clock of the model to reach the escalation.)
C5_Escalation ==
    (inited /\ last_active + EscalationTicks * check_timeout <= MaxTime) ~> modal

\* C6: a tick with idle > auth_timeout queries the server; a reply that is
\* also expired opens the dialog and sets the first alert string; until the
\* user confirms, each firing of the title timer, 1 s after the last, changes
\* the title to the other alert string, and nothing else changes the title.
C6_ExpiryBlinks ==
    [][ /\ (last'.op = "active" /\ now - last_active > auth_timeout) =>
               /\ last'.getlastactive = 1
               /\ [now |-> now] \in queries'
        /\ (/\ last'.op = "lastactive"
            /\ last'.ticknow - (last'.report \div 1000) * 1000 > auth_timeout) =>
               /\ modal'
               /\ htmlTitle' = blinks[1]
               /\ \E t \in timers' :
                      /\ t.name = "_authtimeout_title"
                      /\ t.at = now + title_delay
                      /\ ~episodes'[t.ep].stop_blink
        /\ (/\ last'.op = "toggletitle"
            /\ \E t \in timers : /\ t.fn = "toggletitle" /\ t.at <= now
                                 /\ ~episodes[t.ep].stop_blink) =>
               /\ {htmlTitle, htmlTitle'} = {blinks[1], blinks[2]}
               /\ \E t \in timers' :
                      t.name = "_authtimeout_title" /\ t.at = now + title_delay
        /\ (modal /\ modal' /\ htmlTitle' # htmlTitle) => last'.op = "toggletitle"]_vars

\* The dialog is open and unconfirmed and the title has been set three times:
\* first, second and first string again.
C6_Witness ==
    /\ modal
    /\ last.op = "toggletitle"
    /\ authrenew # 0
    /\ ~episodes[authrenew].stop_blink
    /\ episodes[authrenew].blink_i = 3
    /\ htmlTitle = blinks[1]

C8_ActiveRefreshes ==
    [][(last'.op = "active" /\ now - last_active < check_timeout) =>
           /\ last'.required = 1
           /\ last'.getlastactive = 0
           /\ queries' = queries
           /\ modal' = modal
           /\ episodes' = episodes
           /\ authrenew' = authrenew
           /\ htmlTitle' = htmlTitle
           /\ TitleTimers(timers') = TitleTimers(timers)]_vars

\* A tick has just run with an idle time under check_timeout.
C8_Witness ==
    /\ last.op = "active"
    /\ inited
    /\ now - last_active < check_timeout
    /\ last.required = 1
    /\ queries = {}
    /\ ~modal

\* C9: every tick that does not start a server query leaves the timer
\* scheduled to fire again after check_timeout.
C9_TickReschedules ==
    [][(last'.op = "active" /\ now - last_active <= auth_timeout) =>
           WatchdogAt(timers', now + check_timeout)]_vars

C11_ConfirmResumes ==
    /\ [][ /\ last'.op = "authrenew" =>
                  /\ modal /\ ~modal'
                  /\ last_active' = now
                  /\ last'.required = 1 /\ last'.getlastactive = 0
                  /\ WatchdogAt(timers', now + check_timeout)
                  /\ Cardinality(WatchdogTimers(timers')) = 1
                  /\ htmlTitle' = htmlTitle
           /\ last'.op = "toggletitle" =>
                  \A t \in timers :
                      (/\ t.fn = "toggletitle" /\ t.at <= now
                       /\ ~(modal /\ authrenew = t.ep)) =>
                          /\ htmlTitle' = episodes[t.ep].oldHtmlTitle
                          /\ htmlTitle' \notin {blinks[1], blinks[2]}
                          /\ TitleTimers(timers') = {}]_vars
    /\ (/\ authrenew # 0 /\ ~modal
        /\ \A t \in TitleTimers(timers) : t.at <= MaxTime)
           ~> (/\ authrenew # 0
               /\ TitleTimers(timers) = {}
               /\ htmlTitle = episodes[authrenew].oldHtmlTitle)

\* The warning was confirmed, its title timer has fired once more, and the
\* title is the one from before the warning, with the watchdog timer pending.
C11_Witness ==
    /\ last.op = "toggletitle"
    /\ authrenew # 0
    /\ episodes[authrenew].stop_blink
    /\ episodes[authrenew].blink_i >= 2
    /\ ~modal
    /\ htmlTitle = InitialTitle
    /\ TitleTimers(timers) = {}
    /\ WatchdogAt(timers, last_active + check_timeout)

\* C12: last_active never decreases, whatever the order of ticks, input
\* events, server replies and confirmations; the confirmation is the only
\* step allowed to reset it.
C12_LastActiveMonotonic ==
    [][last_active' >= last_active \/ last'.op = "authrenew"]_vars

\* C13: in every reachable state at most one '_authtimeout' timer is pending,
\* whatever the order of navigations (each calling auto_auth), ticks, server
\* replies and invocations of the confirm action, in the dialog and after it.
C13_OneWatchdogTimer == Cardinality(WatchdogTimers(timers)) <= 1

\* The confirm action was invoked again, some time after the confirmation and
\* after auto_auth ran a second time, while the timer of the confirmation was
\* pending: one timer is pending, the one just scheduled.
C13_Witness ==
    /\ last.op = "renew_again"
    /\ Len(gates) = 2
    /\ now % check_timeout # 0
    /\ WatchdogTimers(timers) =
           {[name |-> "_authtimeout", at |-> now + check_timeout,
             fn |-> "active", ep |-> 0]}

\* C14: a mouse-move or key-down event sets last_active to now and changes
\* nothing else: no timer is scheduled or cancelled, no request is sent, the
\* query in flight stays in flight.  A reply in which the server reports an
\* idle time above auth_timeout opens the dialog, also when such an event came
\* between the tick and the reply.
C14_InputOnlyTouches ==
    [][ /\ last'.op = "input" =>
              /\ last_active' = now
              /\ timers' = timers
              /\ queries' = queries
              /\ last'.required = 0 /\ last'.getlastactive = 0
              /\ UNCHANGED <<now, inited, episodes, authrenew, htmlTitle, modal>>
              /\ UNCHANGED routerVars
        /\ (/\ last'.op = "lastactive"
            /\ last'.ticknow - (last'.report \div 1000) * 1000 > auth_timeout) =>
              /\ modal'
              /\ Len(episodes') = Len(episodes) + 1
              /\ authrenew' = Len(episodes')
              /\ htmlTitle' = blinks[1]
              /\ last_active' = last_active]_vars

\* The dialog has just been opened by a reply although an input event after
\* the tick had set last_active to the time of the tick or later.
C14_Witness ==
    /\ last.op = "lastactive"
    /\ last.ticknow - (last.report \div 1000) * 1000 > auth_timeout
    /\ last_active >= last.ticknow
    /\ modal
    /\ htmlTitle = blinks[1]

\* C15: set_cookie(name, v) followed by get_cookie(name) returns v;
\* del_cookie(name) followed by get_cookie(name) returns null; set_cookie and
\* del_cookie on one name leave what get_cookie returns for every other name
\* unchanged.
C15_CookieRoundTrip ==
    [][ /\ cookie'.op = "set_cookie" =>
               get_cookie(jar', cookie'.name) = Str(cookie'.value)
        /\ cookie'.op = "del_cookie" =>
               get_cookie(jar', cookie'.name) = Null
        /\ cookie'.op \in {"set_cookie", "del_cookie"} =>
               \A other \in Names \ {cookie'.name} :
                   get_cookie(jar', other) = get_cookie(jar, other) ]_vars

\* C16: in every reachable state in which a getlastactive query is in flight
\* or the dialog awaits the confirmation, no '_authtimeout' timer is pending.
C16_SuspendedWhileBlocked ==
    (queries # {} \/ modal) => WatchdogTimers(timers) = {}

\* Off the main view, where a tick reschedules unless it starts a query: the
\* reply has opened the dialog, the title blinks, no watchdog timer is pending.
C16_Witness ==
    /\ last.op = "lastactive"
    /\ modal
    /\ queries = {}
    /\ path = "/service"
    /\ TitleTimers(timers) # {}
    /\ WatchdogTimers(timers) = {}

\* C17 (as claimed): once a warning has been confirmed, invoking
\* $rootScope._authrenew again while no dialog is open changes neither
\* last_active nor the pending timer and issues no authorization call.
C17_ResumeCleared ==
    [][last'.op = "renew_again" =>
           /\ last_active' = last_active
           /\ timers' = timers
           /\ last'.required = 0]_vars

\* C17 (amended): $rootScope._authrenew is never cleared.  Invoked again while
\* no dialog is open it does what the confirmation did: it sets last_active
\* to now, issues one authorization call and puts the watchdog timer at
\* check_timeout from now in place of the pending one; it leaves the title,
\* the title timer, the dialog and the query in flight as they are.
C17_ResumeStaysArmed ==
    [][last'.op = "renew_again" =>
           /\ ~modal /\ ~modal'
           /\ last_active' = now
           /\ last'.required = 1 /\ last'.getlastactive = 0
           /\ WatchdogTimers(timers') =
                  {[name |-> "_authtimeout", at |-> now + check_timeout,
                    fn |-> "active", ep |-> 0]}
           /\ TitleTimers(timers') = TitleTimers(timers)
           /\ episodes'[authrenew].stop_blink
           /\ htmlTitle' = htmlTitle
           /\ queries' = queries
           /\ authrenew' = authrenew]_vars

\* The warning was confirmed and the title restored, so time has passed since
\* the confirmation; _authrenew has just run again and has moved last_active
\* and the timer.
C17_Witness ==
    /\ last.op = "renew_again"
    /\ last.required = 1
    /\ ~modal
    /\ TitleTimers(timers) = {}
    /\ htmlTitle = InitialTitle
    /\ last_active = now
    /\ WatchdogAt(timers, now + check_timeout)

C18_WitnessLower ==
    /\ last.op = "active"
    /\ now - last_active = check_timeout
    /\ last.required = 0 /\ last.getlastactive = 0
    /\ queries = {}
    /\ ~modal
    /\ WatchdogAt(timers, now + check_timeout)

\* C19: no failure stops the watchdog silently: once a tick has issued the
\* getlastactive query, whether the query is answered, fails or is never
\* answered, the watchdog comes to have its timer pending again, or the
\* dialog is open, or a message is shown.
C19_NoSilentStop ==
    (queries # {})
        ~> (\/ WatchdogTimers(timers) # {}
            \/ modal
            \/ message # NoMessage)

====
